---- MODULE Spec2Model ----
(***************************************************************************)
(* State-machine model of notification.py: option consolidation, the       *)
(* originating-identity lookup, the paginated users.list resolution, the   *)
(* message composer and the dispatcher.                                    *)
(*                                                                         *)
(* User names are sequences of one-character strings so that user[0] and   *)
(* user[1:] can be computed; all other texts are strings.  The Slack API   *)
(* is the environment: every api_call returns a response chosen from a     *)
(* bounded set of shapes.                                                  *)
(***************************************************************************)
EXTENDS Integers, Sequences, FiniteSets, TLC

VARIABLES
    pc,           \* position of the script
    parsed_args,  \* Options.parsed_args
    usernames,    \* Options.usernames; the list FetchUserIds mutates in place
    from_user,    \* OriginatingUser
    user_ids,     \* FetchUserIds: user_ids
    next,         \* FetchUserIds: next (continuation cursor)
    response,     \* the response of the latest slack.api_call
    mi,           \* FetchUserIds: position of the loop over response['members']
    message,      \* Message._message
    si,           \* Message.send: position of the loop over users
    calls,        \* every slack.api_call made so far, in order
    output,       \* every line printed so far, in order
    served        \* every directory entry FetchUserIds has looked at

vars == <<pc, parsed_args, usernames, from_user, user_ids, next, response,
          mi, message, si, calls, output, served>>

----------------------------------------------------------------------------
(* Bounds *)

MaxListCalls == 2   \* users.list requests per run
MaxPage == 2        \* directory entries per users.list page
MaxNameLen == 2     \* characters per name, normalization specification
MaxUsers == 2       \* names per list, normalization specification

----------------------------------------------------------------------------
(* Values *)

None == "<None>"    \* Python's None (an absent option)

Range(s) == {s[i] : i \in 1..Len(s)}

Alice == <<"A", "l", "i", "c", "e">>
alice == <<"a", "l", "i", "c", "e">>
bob == <<"b", "o", "b">>
Bob == <<"B", "o", "b">>
at_bob == <<"@">> \o bob
at_Bob == <<"@">> \o Bob
at_at_bob == <<"@", "@">> \o bob
empty_name == <<>>

\* ord() of the characters that occur in names
Code(c) ==
    CASE c = "@" -> 64
      [] c = "A" -> 65
      [] c = "B" -> 66
      [] c = "a" -> 97
      [] c = "b" -> 98
      [] c = "c" -> 99
      [] c = "e" -> 101
      [] c = "i" -> 105
      [] c = "l" -> 108
      [] c = "o" -> 111

\* str.casefold, character by character
casefold_char(c) ==
    CASE c = "A" -> "a"
      [] c = "B" -> "b"
      [] OTHER -> c

casefold(s) == [i \in 1..Len(s) |-> casefold_char(s[i])]

\* Python's str <= str: code points, left to right, a prefix first
RECURSIVE str_le(_, _)
str_le(a, b) ==
    IF a = <<>> THEN TRUE
    ELSE IF b = <<>> THEN FALSE
    ELSE IF Code(Head(a)) < Code(Head(b)) THEN TRUE
    ELSE IF Code(Head(a)) > Code(Head(b)) THEN FALSE
    ELSE str_le(Tail(a), Tail(b))

----------------------------------------------------------------------------
(* Options *)

\* the sigil is never stripped
normalize_name_keeps_sigil(user) == user

\* the body of the loop of _normalize_usernames, for one non-empty name
normalize_name(user) ==
    IF user[1] = "@" THEN Tail(user) ELSE user

\* sorted(normalized, key=casefold): the set's iteration order is arbitrary
\* and the sort is stable, so names with equal keys come out in any order
sorted_casefold(S) ==
    {s \in [1..Cardinality(S) -> S] :
        /\ \A i, j \in 1..Cardinality(S) : i # j => s[i] # s[j]
        /\ \A i, j \in 1..Cardinality(S) :
              i < j => str_le(casefold(s[i]), casefold(s[j]))}

\* _compile_lists: the command line users, then the lines of the user file
\* (an option that was not given contributes nothing)
compile_lists(args) == args.users \o args.user_list

\* truth value of an option: None and the empty string are false
Truthy(v) == v # None /\ v # ""

\* _normalize_usernames raises IndexError at user[0] of an empty name
normalize_raises(names) == \E i \in 1..Len(names) : names[i] = <<>>

\* _normalize_usernames: the lists self.usernames can be assigned
normalize_usernames(names) ==
    sorted_casefold({normalize_name(names[i]) : i \in 1..Len(names)})

\* the recipients given on the command line and in the user file
UserInputs ==
    { [users |-> <<Alice, at_bob>>, user_list |-> <<>>],
      [users |-> <<at_bob>>, user_list |-> <<bob, Alice>>],
      [users |-> <<at_Bob, bob>>, user_list |-> <<>>],
      [users |-> <<at_at_bob>>, user_list |-> <<>>],
      [users |-> <<alice, Alice, at_bob>>, user_list |-> <<>>],
      [users |-> <<>>, user_list |-> <<empty_name, bob>>],
      [users |-> <<>>, user_list |-> <<>>] }

\* the command lines parse_args can return: every combination of the
\* message options with the first recipients, two combinations with the rest
ArgvInputs ==
    { [users |-> <<Alice, at_bob>>, user_list |-> <<>>, url |-> url,
       deadline |-> deadline, message |-> msg, dry |-> dry] :
        url \in {None, "http://x"}, deadline \in {None, "Monday"},
        msg \in {None, "message.txt"}, dry \in BOOLEAN }
    \cup
    { [users |-> u.users, user_list |-> u.user_list, url |-> "http://x",
       deadline |-> "Monday", message |-> None, dry |-> FALSE] :
        u \in UserInputs }
    \cup
    { [users |-> u.users, user_list |-> u.user_list, url |-> None,
       deadline |-> None, message |-> "message.txt", dry |-> TRUE] :
        u \in UserInputs }

NoArgs == [users |-> <<>>, user_list |-> <<>>, url |-> None,
           deadline |-> None, message |-> None, dry |-> FALSE]

NoUser == [username |-> "", firstname |-> ""]

NoResponse == [api |-> "none", ok |-> FALSE]

Init ==
    /\ pc = "start"
    /\ parsed_args = NoArgs
    /\ usernames = <<>>
    /\ from_user = NoUser
    /\ user_ids = <<>>
    /\ next = ""
    /\ response = NoResponse
    /\ mi = 0
    /\ message = <<>>
    /\ si = 0
    /\ calls = <<>>
    /\ output = <<>>
    /\ served = {}

\* Options.store_args, called at the start of __main__
store_args ==
    /\ pc = "start"
    /\ \E args \in ArgvInputs :
          LET compiled == compile_lists(args) IN
          /\ parsed_args' = args
          /\ IF compiled = <<>>
             THEN /\ usernames' = compiled
                  /\ output' = Append(output,
                        <<"error", "At least one user or file of users is required.">>)
                  /\ pc' = "usage_error"
             ELSE IF ~((Truthy(args.url) /\ Truthy(args.deadline)) \/ Truthy(args.message))
             THEN /\ usernames' = compiled
                  /\ output' = Append(output,
                        <<"error", "Either URL and deadline or message file is required.">>)
                  /\ pc' = "usage_error"
             ELSE IF normalize_raises(compiled)
             THEN /\ usernames' = compiled
                  /\ output' = Append(output, <<"traceback", "IndexError">>)
                  /\ pc' = "crashed"
             ELSE /\ usernames' \in normalize_usernames(compiled)
                  /\ output' = output
                  /\ pc' = "origin"
    /\ UNCHANGED <<from_user, user_ids, next, response, mi, message, si,
                   calls, served>>

----------------------------------------------------------------------------
(* OriginatingUser *)

\* the responses users.profile.get can give
ProfileResponses ==
    { [api |-> "users.profile.get", ok |-> FALSE, has_profile |-> FALSE,
       display_name_normalized |-> "", first_name |-> ""],
      [api |-> "users.profile.get", ok |-> FALSE, has_profile |-> TRUE,
       display_name_normalized |-> "pat", first_name |-> "Pat"],
      [api |-> "users.profile.get", ok |-> TRUE, has_profile |-> FALSE,
       display_name_normalized |-> "", first_name |-> ""],
      [api |-> "users.profile.get", ok |-> TRUE, has_profile |-> TRUE,
       display_name_normalized |-> "pat", first_name |-> ""],
      [api |-> "users.profile.get", ok |-> TRUE, has_profile |-> TRUE,
       display_name_normalized |-> "pat", first_name |-> "Pat"] }

\* response['ok'] is not looked at
OriginatingUser_raises_unchecked(r) == ~r.has_profile

\* OriginatingUser.__init__, lines 117-120: a response that is not ok raises
\* RuntimeError, one without a profile raises KeyError
OriginatingUser_raises(r) == ~r.ok \/ ~r.has_profile

\* OriginatingUser.__init__
OriginatingUser ==
    /\ pc = "origin"
    /\ \E r \in ProfileResponses :
          /\ response' = r
          /\ calls' = Append(calls, [api |-> "users.profile.get"])
          /\ IF OriginatingUser_raises(r)
             THEN /\ output' = Append(output,
                        IF ~r.ok THEN <<"response", "users.profile.get">>
                        ELSE <<"traceback", "KeyError">>)
                  /\ from_user' = from_user
                  /\ pc' = "aborted"
             ELSE /\ output' = output
                  /\ from_user' =
                        [username |-> "@" \o r.display_name_normalized,
                         firstname |-> IF r.first_name # "" THEN r.first_name
                                       ELSE "@" \o r.display_name_normalized]
                  /\ pc' = "list"
    /\ UNCHANGED <<parsed_args, usernames, user_ids, next, mi, message, si,
                   served>>

----------------------------------------------------------------------------
(* FetchUserIds *)

\* the entries of the directory
Directory ==
    { [id |-> "id1", has_name |-> TRUE, name |-> alice,
       has_real_name |-> FALSE, real_name |-> <<>>],
      [id |-> "id1", has_name |-> TRUE, name |-> alice,
       has_real_name |-> TRUE, real_name |-> Alice],
      [id |-> "id2", has_name |-> TRUE, name |-> bob,
       has_real_name |-> TRUE, real_name |-> Alice] }

\* the member lists of one page
Pages == UNION {[1..n -> Directory] : n \in 0..MaxPage}

\* the responses users.list can give
ListResponses ==
    { [api |-> "users.list", ok |-> FALSE, has_error |-> he, error |-> e,
       has_members |-> FALSE, members |-> <<>>, has_metadata |-> FALSE,
       has_next_cursor |-> FALSE, next_cursor |-> ""] :
        he \in {TRUE}, e \in {"ratelimited", "invalid_auth"} }
    \cup
    { [api |-> "users.list", ok |-> FALSE, has_error |-> FALSE, error |-> "",
       has_members |-> FALSE, members |-> <<>>, has_metadata |-> FALSE,
       has_next_cursor |-> FALSE, next_cursor |-> ""] }
    \cup
    { [api |-> "users.list", ok |-> TRUE, has_error |-> FALSE, error |-> "",
       has_members |-> hm, members |-> p, has_metadata |-> md,
       has_next_cursor |-> hc, next_cursor |-> c] :
        hm \in BOOLEAN, p \in Pages, md \in BOOLEAN, hc \in BOOLEAN,
        c \in {"", "c1", "c2"} }

\* the shapes a response can have: absent keys carry no value
WellFormed(r) ==
    /\ (~r.has_members => r.members = <<>>)
    /\ (~r.has_metadata => ~r.has_next_cursor)
    /\ (~r.has_next_cursor => r.next_cursor = "")

\* a rate limit is taken for any other failure
ratelimited_never(r) == FALSE

\* 'error' in response and 'ratelimited' in response['error']
ratelimited(r) == r.has_error /\ r.error \in {"ratelimited"}

ListCalls == Len(SelectSeq(calls, LAMBDA c : c.api = "users.list"))

\* nothing is removed
list_remove_nothing(l, x) == l

\* list.remove(x): drops the first occurrence of x
list_remove(l, x) ==
    LET i == CHOOSE k \in 1..Len(l) : l[k] = x /\ \A j \in 1..(k - 1) : l[j] # x
    IN SubSeq(l, 1, i - 1) \o SubSeq(l, i + 1, Len(l))

\* FetchUserIds, lines 172-180: one users.list request
FetchUserIds_request ==
    /\ pc = "list"
    /\ ListCalls < MaxListCalls
    /\ \E r \in ListResponses :
          /\ WellFormed(r)
          /\ response' = r
          /\ calls' = Append(calls, [api |-> "users.list", limit |-> 250, cursor |-> next])
          /\ IF ~r.ok
             THEN IF ratelimited(r)
                  THEN /\ output' = Append(output, <<"pausing...", "">>)
                       /\ pc' = "list"
                  ELSE /\ output' = Append(output, <<"response", "users.list">>)
                       /\ pc' = "aborted"
             ELSE /\ output' = output
                  /\ pc' = "page"
          /\ mi' = 1
    /\ UNCHANGED <<parsed_args, usernames, from_user, user_ids, next, message,
                   si, served>>

\* lines 185-190: a field the entry does not have reads as ''
member_name(member) == IF member.has_name THEN member.name ELSE <<>>
member_real_name(member) ==
    IF member.has_real_name THEN member.real_name ELSE <<>>

\* the real name is looked at before the short name
matched_name_real_first(member, users) ==
    IF member_real_name(member) \in Range(users)
    THEN [found |-> TRUE, name |-> member_real_name(member)]
    ELSE IF member_name(member) \in Range(users)
    THEN [found |-> TRUE, name |-> member_name(member)]
    ELSE [found |-> FALSE, name |-> <<>>]

\* lines 192-197: the name under which an entry matches the outstanding names
matched_name(member, users) ==
    IF member_name(member) \in Range(users)
    THEN [found |-> TRUE, name |-> member_name(member)]
    ELSE IF member_real_name(member) \in Range(users)
    THEN [found |-> TRUE, name |-> member_real_name(member)]
    ELSE [found |-> FALSE, name |-> <<>>]

\* FetchUserIds, lines 183-197: one entry of response['members']
FetchUserIds_member ==
    /\ pc = "page"
    /\ mi <= Len(response.members)
    /\ LET member == response.members[mi]
           m == matched_name(member, usernames)
       IN /\ IF m.found
             THEN /\ user_ids' = Append(user_ids, [id |-> member.id, name |-> m.name])
                  /\ usernames' = list_remove(usernames, m.name)
             ELSE UNCHANGED <<user_ids, usernames>>
          /\ served' = served \cup {member}
    /\ mi' = mi + 1
    /\ UNCHANGED <<pc, parsed_args, from_user, next, response, message, si,
                   calls, output>>

\* an empty next cursor does not end the pagination
FetchUserIds_returns_on_empty_cursor_missing(users, r) ==
    IF users = <<>> THEN TRUE
    ELSE IF ~r.has_metadata THEN TRUE
    ELSE ~r.has_next_cursor

\* lines 199-208: whether FetchUserIds returns after this page
FetchUserIds_returns(users, r) ==
    IF users = <<>> THEN TRUE
    ELSE IF ~r.has_metadata THEN TRUE
    ELSE IF ~r.has_next_cursor THEN TRUE
    ELSE r.next_cursor = ""

\* FetchUserIds, lines 199-208: return, or go on to the next page
FetchUserIds_pageend ==
    /\ pc = "page"
    /\ mi > Len(response.members)
    /\ pc' = IF FetchUserIds_returns(usernames, response) THEN "compose" ELSE "list"
    /\ next' = IF usernames # <<>> /\ response.has_metadata /\ response.has_next_cursor
               THEN response.next_cursor
               ELSE next
    /\ UNCHANGED <<parsed_args, usernames, from_user, user_ids, response, mi,
                   message, si, calls, output, served>>

----------------------------------------------------------------------------
(* Message *)

\* default_message: the literal text between the replacement fields
default_message ==
    << ":robot_face:I am a bot, posting on behalf of ", "{0}",
       ". Beep-boop ... The current draft is at ", "{1}",
       " ... If you don't specifically approve your mentions/content by ", "{2}",
       ", we will exclude it*. ", "{0}",
       " will see your response ... Beep-boop. Bot out:robot_face:" >>

\* str() of an option's value
str(v) == IF v = None THEN "None" ELSE v

\* the url and the deadline change places
format_swapped(template, a0, a1, a2) ==
    [i \in 1..Len(template) |->
        CASE template[i] = "{0}" -> str(a0)
          [] template[i] = "{1}" -> str(a2)
          [] template[i] = "{2}" -> str(a1)
          [] OTHER -> template[i]]

\* str.format with three positional arguments
format(template, a0, a1, a2) ==
    [i \in 1..Len(template) |->
        CASE template[i] = "{0}" -> str(a0)
          [] template[i] = "{1}" -> str(a1)
          [] template[i] = "{2}" -> str(a2)
          [] OTHER -> template[i]]

\* f.read() of the message file
file_contents(path) == <<"contents of " \o path>>

\* Message.__init__
Message_init ==
    /\ pc = "compose"
    /\ IF Truthy(parsed_args.message)
       THEN \E readable \in BOOLEAN :
               IF readable
               THEN /\ message' = file_contents(parsed_args.message)
                    /\ output' = output
                    /\ pc' = "send"
               ELSE /\ message' = format(default_message, from_user.firstname,
                                         parsed_args.url, parsed_args.deadline)
                    /\ output' = Append(output, <<"traceback", "OSError">>)
                    /\ pc' = "crashed"
       ELSE /\ message' = format(default_message, from_user.firstname,
                                 parsed_args.url, parsed_args.deadline)
            /\ output' = output
            /\ pc' = "send"
    /\ UNCHANGED <<parsed_args, usernames, from_user, user_ids, next, response,
                   mi, si, calls, served>>

\* Message.send, lines 150-154: the message is printed when dry
send_begin ==
    /\ pc = "send"
    /\ output' = IF parsed_args.dry
                 THEN output \o << <<"separator", <<>> >>, <<"message", message>>,
                                   <<"separator", <<>> >>, <<"", <<>> >> >>
                 ELSE output
    /\ si' = 1
    /\ pc' = "send_loop"
    /\ UNCHANGED <<parsed_args, usernames, from_user, user_ids, next, response,
                   mi, message, calls, served>>

\* the responses chat.postMessage can give
PostResponses == { [api |-> "chat.postMessage", ok |-> ok] : ok \in BOOLEAN }

\* the dry flag is not looked at
send_live_always(dry) == TRUE

\* line 157: the message is posted unless the run is dry
send_live(dry) == ~dry

\* a failed send is not noticed
send_raises_never(r) == FALSE

\* lines 161-163: a response that is not ok raises RuntimeError
send_raises(r) == ~r.ok

\* Message.send, lines 156-165: one user of the loop
send_user ==
    /\ pc = "send_loop"
    /\ si <= Len(user_ids)
    /\ LET user == user_ids[si] IN
       IF send_live(parsed_args.dry)
       THEN \E r \in PostResponses :
               /\ response' = r
               /\ calls' = Append(calls,
                     [api |-> "chat.postMessage", channel |-> user.id,
                      text |-> message, as_user |-> from_user.username])
               /\ IF send_raises(r)
                  THEN /\ output' = output \o << <<"Notifying @", user.name>>,
                                                 <<"response", "chat.postMessage">> >>
                       /\ pc' = "aborted"
                       /\ si' = si
                  ELSE /\ output' = Append(output, <<"Notifying @", user.name>>)
                       /\ pc' = "send_loop"
                       /\ si' = si + 1
       ELSE /\ output' = Append(output, <<"Would have notified @", user.name>>)
            /\ si' = si + 1
            /\ UNCHANGED <<pc, response, calls>>
    /\ UNCHANGED <<parsed_args, usernames, from_user, user_ids, next, mi,
                   message, served>>

\* __main__, lines 222-226: the names that were not identified
report_unidentified ==
    /\ pc = "send_loop"
    /\ si > Len(user_ids)
    /\ output' = IF usernames # <<>>
                 THEN output
                      \o << <<"", <<>> >>,
                            <<"*** Unable to identify the following users ***", <<>> >> >>
                      \o [i \in 1..Len(usernames) |-> <<"@", usernames[i]>>]
                 ELSE output
    /\ pc' = "done"
    /\ UNCHANGED <<parsed_args, usernames, from_user, user_ids, next, response,
                   mi, message, si, calls, served>>

Next ==
    \/ store_args
    \/ OriginatingUser
    \/ FetchUserIds_request
    \/ FetchUserIds_member
    \/ FetchUserIds_pageend
    \/ Message_init
    \/ send_begin
    \/ send_user
    \/ report_unidentified

Spec == Init /\ [][Next]_vars


----------------------------------------------------------------------------
(* _normalize_usernames on its own, applied and applied again *)

NameChars == {"@", "b", "B"}

AllNames == UNION {[1..n -> NameChars] : n \in 0..MaxNameLen}

NameLists == UNION {[1..n -> AllNames] : n \in 1..MaxUsers}

InitNorm ==
    /\ pc = "normalize"
    /\ \E names \in NameLists :
          /\ parsed_args = [NoArgs EXCEPT !.users = names]
          /\ usernames = names
    /\ from_user = NoUser
    /\ user_ids = <<>>
    /\ next = ""
    /\ response = NoResponse
    /\ mi = 0
    /\ message = <<>>
    /\ si = 0
    /\ calls = <<>>
    /\ output = <<>>
    /\ served = {}

\* Options._normalize_usernames
normalize_usernames_step ==
    /\ pc \in {"normalize", "normalized"}
    /\ IF normalize_raises(usernames)
       THEN /\ usernames' = usernames
            /\ pc' = "crashed"
       ELSE /\ usernames' \in normalize_usernames(usernames)
            /\ pc' = IF pc = "normalize" THEN "normalized" ELSE "renormalized"
    /\ UNCHANGED <<parsed_args, from_user, user_ids, next, response, mi,
                   message, si, calls, output, served>>

NextNorm == normalize_usernames_step

SpecNorm == InitNorm /\ [][NextNorm]_vars

----------------------------------------------------------------------------
(* Properties *)

Last(s) == s[Len(s)]

CallsTo(api) == SelectSeq(calls, LAMBDA c : c.api = api)

Lines(tag) == SelectSeq(output, LAMBDA l : l[1] = tag)

UnableHeader == "*** Unable to identify the following users ***"

Names(member) == {member_name(member), member_real_name(member)}

MessageSupplied == parsed_args.message # None

PairSupplied == parsed_args.url # None /\ parsed_args.deadline # None

\* C1: with at least one recipient name, a run that is given both a message
\* file and the url + deadline pair, or neither a message file nor the complete
\* pair, ends store_args in a usage error and makes no external call.
C1_ExactlyOneMessageSource ==
    (/\ pc # "start"
     /\ compile_lists(parsed_args) # <<>>
     /\ \/ MessageSupplied /\ PairSupplied
        \/ ~MessageSupplied /\ ~PairSupplied)
    => (pc = "usage_error" /\ calls = <<>>)

SendFailed ==
    \E i \in 1..Len(output) :
        output[i][1] = "response" /\ output[i][2] = "chat.postMessage"

\* C2: in live mode the chat.postMessage calls go over the resolved recipients
\* in list order, one per element, each with the one message body and the
\* originator's handle; when the k-th call fails the run is aborted with
\* exactly k calls made and without the unresolved-names report.
LiveSendInv ==
    ~parsed_args.dry =>
        LET P == CallsTo("chat.postMessage") IN
        /\ Len(P) <= Len(user_ids)
        /\ \A k \in 1..Len(P) :
              /\ P[k].channel = user_ids[k].id
              /\ P[k].text = message
              /\ P[k].as_user = from_user.username
        /\ (pc = "send_loop" => Len(P) = si - 1)
        /\ (pc = "done" => Len(P) = Len(user_ids))
        /\ (SendFailed =>
              /\ pc = "aborted"
              /\ Len(P) = si
              /\ Last(calls).api = "chat.postMessage"
              /\ Lines(UnableHeader) = <<>>)

C2_LiveSendAbortsAtFirstFailure ==
    [][/\ LiveSendInv'
       /\ (pc = "send_loop" /\ calls' # calls /\ ~parsed_args.dry /\ ~response'.ok)
              => (pc' = "aborted" /\ si' = si /\ SendFailed')
       /\ pc # "aborted"]_vars

\* a live run of three recipients whose second send failed
C2_Witness ==
    /\ ~parsed_args.dry
    /\ SendFailed
    /\ pc = "aborted"
    /\ Len(user_ids) = 3
    /\ si = 2
    /\ Len(CallsTo("chat.postMessage")) = 2

\* C3: a dry run never calls chat.postMessage; it prints the message body
\* once and then one "Would have notified" line per resolved recipient, in
\* list order.
C3_DryRunSendsNothing ==
    parsed_args.dry =>
        LET W == Lines("Would have notified @") IN
        /\ CallsTo("chat.postMessage") = <<>>
        /\ Lines("Notifying @") = <<>>
        /\ IF pc \in {"send_loop", "done"}
           THEN /\ Len(Lines("message")) = 1
                /\ Lines("message")[1][2] = message
                /\ Len(W) = (IF pc = "done" THEN Len(user_ids) ELSE si - 1)
                /\ \A k \in 1..Len(W) : W[k][2] = user_ids[k].name
                /\ \A i, j \in 1..Len(output) :
                      (output[i][1] = "message"
                          /\ output[j][1] = "Would have notified @") => i < j
           ELSE Lines("message") = <<>> /\ W = <<>>

\* a finished dry run with two resolved recipients
C3_Witness ==
    /\ parsed_args.dry
    /\ pc = "done"
    /\ Len(user_ids) = 2
    /\ Len(Lines("Would have notified @")) = 2

\* the command line of the end-to-end scenario
E2EArgs ==
    /\ parsed_args.users = <<Alice, at_bob>>
    /\ parsed_args.user_list = <<>>
    /\ parsed_args.url = "http://x"
    /\ parsed_args.deadline = "Monday"
    /\ parsed_args.message = None
    /\ ~parsed_args.dry

\* the outcome of the end-to-end scenario
E2EOutcome ==
    LET P == CallsTo("chat.postMessage") IN
    /\ Len(P) = 1
    /\ P[1].channel = "id1"
    /\ P[1].text = << default_message[1], from_user.firstname,
                      default_message[3], "http://x",
                      default_message[5], "Monday",
                      default_message[7], from_user.firstname,
                      default_message[9] >>
    /\ usernames = <<bob>>
    /\ Len(Lines("@")) = 1
    /\ Lines("@")[1][2] = bob

\* C4 as stated: the directory's only matching entry is id1 with short name
\* "alice" and nothing matches "bob"; the finished live run has sent exactly
\* one message, to id1, and reports "bob".
C4_EndToEnd_Original ==
    (/\ pc = "done"
     /\ E2EArgs
     /\ \E m \in served : m.id = "id1" /\ member_name(m) = alice
     /\ \A m \in served : bob \notin Names(m))
    => E2EOutcome

\* C4, amended: the same with an entry id1 whose short name or real name is
\* exactly "Alice" (the comparison is case-sensitive).
C4_EndToEnd ==
    (/\ pc = "done"
     /\ E2EArgs
     /\ \E m \in served : m.id = "id1" /\ Alice \in Names(m)
     /\ \A m \in served : Alice \in Names(m) => m.id = "id1"
     /\ \A m \in served : bob \notin Names(m))
    => E2EOutcome

\* a finished end-to-end run that looked at the entry of id1
C4_Witness ==
    /\ pc = "done"
    /\ E2EArgs
    /\ \E m \in served : m.id = "id1" /\ Alice \in Names(m)
    /\ \A m \in served : bob \notin Names(m)
    /\ Len(CallsTo("chat.postMessage")) = 1
    /\ from_user.firstname = "Pat"

RateLimited(r) ==
    r.api = "users.list" /\ ~r.ok /\ r.has_error /\ r.error = "ratelimited"

C6_NoSecondMatch ==
    /\ \A i, j \in 1..Len(user_ids) :
          i # j => user_ids[i].name # user_ids[j].name
    /\ \A i \in 1..Len(user_ids) : user_ids[i].name \notin Range(usernames)

\* the entry that resolved a name was met again, on the same page, and gave
\* nothing
C6_Witness ==
    /\ pc = "page"
    /\ mi = 3
    /\ response.members[1] = response.members[2]
    /\ Len(user_ids) = 1
    /\ user_ids[1].name \in Names(response.members[2])

\* C7: after a page FetchUserIds returns exactly when no name is outstanding,
\* or the response has no metadata, or its metadata has no or an empty next
\* cursor; a return leaves the outstanding names as they are, and otherwise
\* the next request carries the cursor of that page.
C7_PaginationStops ==
    [][/\ (pc = "page" /\ pc' # "page")
              => LET returns == \/ usernames = <<>>
                                \/ ~response.has_metadata
                                \/ response.has_metadata /\ ~response.has_next_cursor
                                \/ response.has_metadata /\ response.has_next_cursor
                                      /\ response.next_cursor = ""
                 IN /\ returns <=> pc' = "compose"
                    /\ ~returns => (pc' = "list" /\ next' = response.next_cursor)
                    /\ usernames' = usernames
                    /\ user_ids' = user_ids
       /\ (pc = "list" /\ calls' # calls)
              => (Last(calls').api = "users.list" /\ Last(calls').cursor = next)]_vars

\* a second page was requested with the cursor of the first, and the run
\* returned from it with a name outstanding because it had no metadata
C7_Witness ==
    /\ pc = "compose"
    /\ usernames # <<>>
    /\ ~response.has_metadata
    /\ Len(calls) = 3
    /\ calls[3].cursor = "c2"

ProfileFailed ==
    \E i \in 1..Len(output) :
        output[i][1] = "response" /\ output[i][2] = "users.profile.get"

ProfileFirstInv ==
    /\ Len(CallsTo("users.profile.get")) <= 1
    /\ calls # <<>> => calls[1].api = "users.profile.get"
    /\ pc \in {"list", "page", "compose", "send", "send_loop", "done"}
          => Len(CallsTo("users.profile.get")) = 1
    /\ ProfileFailed => (pc = "aborted" /\ Len(calls) = 1)

\* C8: users.profile.get is called once, before any other external call, and a
\* response that is not ok aborts the run with no other call made.
C8_ProfileLookupFirst ==
    [][/\ ProfileFirstInv'
       /\ (pc = "origin" /\ ~response'.ok)
              => (pc' = "aborted" /\ ProfileFailed' /\ Len(calls') = 1)
       /\ pc # "aborted"]_vars

\* the run was aborted by the failed profile lookup
C8_Witness ==
    /\ pc = "aborted"
    /\ ProfileFailed
    /\ calls = <<[api |-> "users.profile.get"]>>

\* a name with at most one leading '@' and something after it
SingleSigil(u) ==
    /\ u # <<>>
    /\ u[1] = "@" => (Len(u) >= 2 /\ u[2] # "@")

Stored(u) == IF u[1] = "@" THEN SubSeq(u, 2, Len(u)) ELSE u

\* C9 as stated: applying the normalization to the normalized names of any
\* non-empty input names, names with more than one leading '@' included,
\* returns them unchanged.
C9_Idempotent_Original ==
    [][(pc = "normalized" /\ pc' = "renormalized")
          => Range(usernames') = Range(usernames)]_vars

\* C9, amended: a name beginning with '@' is stored without that one
\* character and any other name unchanged; applied again, the normalization
\* keeps every name that came from an input with at most one leading '@' and
\* something after it.
C9_Idempotent ==
    [][/\ (pc = "normalize" /\ pc' = "normalized")
              => /\ \A u \in Range(usernames) : Stored(u) \in Range(usernames')
                 /\ \A n \in Range(usernames') :
                       \E u \in Range(usernames) : n = Stored(u)
       /\ pc = "normalized"
              => /\ \A u \in Range(parsed_args.users) :
                       SingleSigil(u)
                          => /\ Stored(u) \in Range(usernames)
                             /\ Stored(u) \in Range(usernames')
                 /\ (\A u \in Range(parsed_args.users) : SingleSigil(u))
                       => /\ pc' = "renormalized"
                          /\ Range(usernames') = Range(usernames)]_vars

\* a list with a sigil-prefixed name and a plain one, normalized twice
C9_Witness ==
    /\ pc = "renormalized"
    /\ Len(parsed_args.users) = 2
    /\ parsed_args.users[1] = <<"@", "b">>
    /\ parsed_args.users[2] = <<"B">>
    /\ Range(usernames) = {<<"b">>, <<"B">>}

Requested == {Stored(u) : u \in Range(compile_lists(parsed_args))}

Matched == {user_ids[i].name : i \in 1..Len(user_ids)}

Conservation ==
    pc \in {"origin", "list", "page", "compose", "send", "send_loop", "done",
            "aborted"}
       => /\ Matched \cap Range(usernames) = {}
          /\ Matched \cup Range(usernames) = Requested
          /\ Len(user_ids) + Len(usernames) = Cardinality(Requested)

\* C10: the matched names and the outstanding names are disjoint and together
\* are the requested names, after every entry and at return; an entry gives at
\* most one resolved recipient, by its short name when that is outstanding,
\* else by its real name.
C10_Conservation ==
    [][/\ Conservation'
       /\ (pc = "page" /\ mi' = mi + 1)
              => LET member == response.members[mi]
                     short == IF member.has_name THEN member.name ELSE <<>>
                     real == IF member.has_real_name THEN member.real_name ELSE <<>>
                 IN IF short \in Range(usernames)
                    THEN user_ids' = Append(user_ids, [id |-> member.id, name |-> short])
                    ELSE IF real \in Range(usernames)
                    THEN user_ids' = Append(user_ids, [id |-> member.id, name |-> real])
                    ELSE user_ids' = user_ids]_vars

\* an entry whose short name and real name were both outstanding was resolved
C10_Witness ==
    /\ pc = "page"
    /\ mi = 2
    /\ member_name(response.members[1]) = bob
    /\ member_real_name(response.members[1]) = Alice
    /\ user_ids = <<[id |-> "id2", name |-> bob]>>
    /\ Alice \in Range(usernames)

====
